---- MODULE Spec2Model ----
(***************************************************************************)
(* Model of src/board/bitboard.rs: the BitBoard word, its iterator and the *)
(* Position aggregate.                                                      *)
(*                                                                         *)
(* A u64 is represented by the set of the indices of its one bits, a       *)
(* subset of 0..63 (TLC's integers are 32 bits wide, a u64 does not fit).  *)
(* The word operations of the source are defined on that representation    *)
(* bit by bit: | is union, & is intersection, ! is the complement in       *)
(* 0..63, << moves every index up and drops those that leave the word,     *)
(* x - 1 borrows through the low zero bits.                                *)
(***************************************************************************)
EXTENDS Integers, Sequences, FiniteSets

WORD_BITS == 64
WHITE == 0
BLACK == 1
PAWN == 0
KNIGHT == 1
BISHOP == 2
ROOK == 3
QUEEN == 4
KING == 5
NUM_PIECES == 6

\* Bounds of the model.
NSquares == 4
NOob == 2
MaxEdits == 4
MaxCycles == 2

Bits == 0..(WORD_BITS - 1)
Sides == {WHITE, BLACK}
Pieces == 0..(NUM_PIECES - 1)

\* The in-range squares the operations are called with: the first NSquares
\* of a fixed list that holds both ends of the word and the king squares.
SquareList == <<0, 63, 4, 60, 1, 32, 31, 62>>
Squares == {SquareList[n] : n \in 1..NSquares}
\* The out-of-range squares (>= 64) the operations are called with.
OobSquares == WORD_BITS..(WORD_BITS + NOob - 1)
\* The squares of the Position scenarios (the two king squares).
PosSquares == {4, 60}
\* The piece kinds the collaborators edit: the first, a middle and the last
\* index of update_sides' loop.
EditKinds == {PAWN, ROOK, KING}

VARIABLES
    overflow_checks, \* build profile: TRUE = overflow checks on (debug)
    m,               \* the BitBoard under test (BitBoard.0)
    log,             \* the last two calls made on m
    panicked,        \* a call has panicked
    it,              \* BitBoardIterator.0 of the live iterator
    it_src,          \* the value of m when iter() made the iterator
    yielded,         \* what next() has returned Some of so far
    it_state,        \* "none" | "live" | "done" (next() has returned None)
    prev_run,        \* the last finished traversal: [src, seq, any]
    touched,         \* m was edited after iter() made the iterator
    bb_pieces,       \* Position.bb_pieces
    bb_sides,        \* Position.bb_sides
    last,            \* the last operation on the Position
    prev,            \* the Position before the last operation
    edits,           \* number of external edits made so far
    wpc,             \* writer thread: where it is
    wpiece,          \* writer thread: the loop variable of update_sides
    lock,            \* holder of the callers' mutual-exclusion lock
    rpc,             \* locking reader: where it is
    seen_l,          \* what the locking reader last read
    seen_u,          \* what the lock-free reader last read
    cycles           \* edit-then-update sequences the writer has started

bbVars == <<overflow_checks, m, log, panicked>>
itVars == <<it, it_src, yielded, it_state, prev_run, touched>>
posVars == <<bb_pieces, bb_sides>>
seqVars == <<last, prev, edits>>
shVars == <<wpc, wpiece, lock, rpc, seen_l, seen_u, cycles>>
vars == <<bbVars, itVars, posVars, seqVars, shVars>>

----------------------------------------------------------------------------
\* u64 word operations

BitOr(a, b) == a \cup b
BitAnd(a, b) == a \cap b
BitNot(a) == Bits \ a

\* x << n for n < 64: bits shifted past bit 63 are lost.
Shl(x, n) == {b + n : b \in x} \cap Bits

\* 1u64 << square. For square >= 64 the shift overflows: with overflow checks
\* (debug profile) it panics, without (release profile) the shift amount is
\* masked to its low six bits.
ShlOne(square, checks) ==
    IF square < WORD_BITS
    THEN [panic |-> FALSE, val |-> Shl({0}, square)]
    ELSE IF checks
         THEN [panic |-> TRUE, val |-> {}]
         ELSE [panic |-> FALSE, val |-> Shl({0}, square % WORD_BITS)]

\* u64::trailing_zeros
trailing_zeros(x) ==
    IF x = {} THEN WORD_BITS ELSE CHOOSE b \in x : \A c \in x : b <= c

\* u64::count_ones
count_ones(x) == Cardinality(x)

\* x - 1 on a u64: the borrow runs through the low zero bits, turning each
\* into a one, and clears the lowest one bit (from 0 it would run off the
\* word; next() never subtracts from 0).
SubOne(x) ==
    LET tz == trailing_zeros(x)
    IN (x \ {tz}) \cup {b \in Bits : b < tz}

----------------------------------------------------------------------------
\* BitBoard

empty == {}

\* The word whose value is the number `square` (its binary digits).
from_square_noshift(square, checks) ==
    [panic |-> FALSE,
     val |-> {b \in 0..7 : (square \div (2 ^ b)) % 2 = 1}]
from_square(square, checks) == ShlOne(square, checks)

set_bit_toggle(self, square, checks) ==
    LET sh == ShlOne(square, checks)
    IN IF sh.panic
       THEN [panic |-> TRUE, val |-> self]
       ELSE [panic |-> FALSE,
             val |-> (self \ sh.val) \cup (sh.val \ self)]
set_bit(self, square, checks) ==
    LET sh == ShlOne(square, checks)
    IN IF sh.panic
       THEN [panic |-> TRUE, val |-> self]
       ELSE [panic |-> FALSE, val |-> BitOr(self, sh.val)]

clear_bit_wrong(self, square, checks) ==
    LET sh == ShlOne(square, checks)
    IN IF sh.panic
       THEN [panic |-> TRUE, val |-> self]
       ELSE [panic |-> FALSE, val |-> BitAnd(self, sh.val)]
clear_bit(self, square, checks) ==
    LET sh == ShlOne(square, checks)
    IN IF sh.panic
       THEN [panic |-> TRUE, val |-> self]
       ELSE [panic |-> FALSE, val |-> BitAnd(self, BitNot(sh.val))]

is_set(self, square, checks) ==
    LET sh == ShlOne(square, checks)
    IN IF sh.panic
       THEN [panic |-> TRUE, ret |-> FALSE]
       ELSE [panic |-> FALSE, ret |-> BitAnd(self, sh.val) # {}]

popcount(self) == count_ones(self)

\* BitBoard::iter: the iterator holds a copy of the word.
iter(self) == self

\* BitBoardIterator::next: [some, item, it]
iter_next_high(w) ==
    IF w = {}
    THEN [some |-> FALSE, item |-> 0, it |-> w]
    ELSE LET msb == CHOOSE b \in w : \A c \in w : c <= b
         IN [some |-> TRUE, item |-> msb, it |-> w \ {msb}]
iter_next(w) ==
    IF w = {}
    THEN [some |-> FALSE, item |-> 0, it |-> w]
    ELSE LET lsb == trailing_zeros(w)
         IN [some |-> TRUE, item |-> lsb, it |-> BitAnd(w, SubOne(w))]

----------------------------------------------------------------------------
\* Position: a record [bb_pieces, bb_sides]

\* Position::new
new == [bb_pieces |-> [s \in Sides |-> [k \in Pieces |-> empty]],
        bb_sides |-> [s \in Sides |-> empty]]

\* The Position of the state.
Pos == [bb_pieces |-> bb_pieces, bb_sides |-> bb_sides]

\* update_sides, statement by statement.
\* self.bb_sides[WHITE] = BitBoard(0)
zero_white_skipped(pos) == pos
zero_white(pos) == [pos EXCEPT !.bb_sides[WHITE] = {}]

\* self.bb_sides[BLACK] = BitBoard(0)
zero_black_skipped(pos) == pos
zero_black(pos) == [pos EXCEPT !.bb_sides[BLACK] = {}]

\* self.bb_sides[WHITE].0 |= self.bb_pieces[WHITE][piece].0
or_white(pos, piece) ==
    [pos EXCEPT !.bb_sides[WHITE] = BitOr(@, pos.bb_pieces[WHITE][piece])]

\* self.bb_sides[BLACK].0 |= self.bb_pieces[BLACK][piece].0
or_black_from_white(pos, piece) ==
    [pos EXCEPT !.bb_sides[BLACK] = BitOr(@, pos.bb_pieces[WHITE][piece])]
or_black(pos, piece) ==
    [pos EXCEPT !.bb_sides[BLACK] = BitOr(@, pos.bb_pieces[BLACK][piece])]

\* for piece in 0..6 { ... }
RECURSIVE update_loop_short(_, _)
update_loop_short(pos, piece) ==
    IF piece >= NUM_PIECES - 1
    THEN pos
    ELSE update_loop_short(or_black(or_white(pos, piece), piece), piece + 1)
RECURSIVE update_loop(_, _)
update_loop(pos, piece) ==
    IF piece >= NUM_PIECES
    THEN pos
    ELSE update_loop(or_black(or_white(pos, piece), piece), piece + 1)

\* Position::update_sides, run to its end
update_sides(pos) == update_loop(zero_black(zero_white(pos)), 0)

----------------------------------------------------------------------------
\* Calls on one BitBoard value m (specification SpecBitBoard)

\* What a call does: [panic, val (the word afterwards), retb, retn].
Call(op, self, square, checks) ==
    CASE op = "empty" ->
           [panic |-> FALSE, val |-> empty, retb |-> FALSE, retn |-> 0]
      [] op = "from_square" ->
           LET r == from_square(square, checks)
           IN [panic |-> r.panic, val |-> IF r.panic THEN self ELSE r.val,
               retb |-> FALSE, retn |-> 0]
      [] op = "set_bit" ->
           LET r == set_bit(self, square, checks)
           IN [panic |-> r.panic, val |-> r.val, retb |-> FALSE, retn |-> 0]
      [] op = "clear_bit" ->
           LET r == clear_bit(self, square, checks)
           IN [panic |-> r.panic, val |-> r.val, retb |-> FALSE, retn |-> 0]
      [] op = "is_set" ->
           LET r == is_set(self, square, checks)
           IN [panic |-> r.panic, val |-> self, retb |-> r.ret, retn |-> 0]
      [] op = "popcount" ->
           [panic |-> FALSE, val |-> self, retb |-> FALSE,
            retn |-> popcount(self)]

Push(e) == IF Len(log) < 2 THEN Append(log, e) ELSE <<log[2], e>>

DoCall(op, square) ==
    /\ LET r == Call(op, m, square, overflow_checks)
       IN /\ m' = r.val
          /\ panicked' = r.panic
          /\ log' = Push([op |-> op, sq |-> square, pre |-> m, post |-> r.val,
                          panic |-> r.panic, retb |-> r.retb,
                          retn |-> r.retn])
    /\ UNCHANGED <<overflow_checks, itVars, posVars, seqVars, shVars>>

AllSquares == Squares \cup OobSquares

\* A panic ends the run: no call follows it.
Empty ==
    /\ ~panicked
    /\ DoCall("empty", 0)
FromSquare ==
    /\ ~panicked
    /\ \E sq \in AllSquares : DoCall("from_square", sq)
SetBit ==
    /\ ~panicked
    /\ \E sq \in AllSquares : DoCall("set_bit", sq)
ClearBit ==
    /\ ~panicked
    /\ \E sq \in AllSquares : DoCall("clear_bit", sq)
IsSet ==
    /\ ~panicked
    /\ \E sq \in AllSquares : DoCall("is_set", sq)
Popcount ==
    /\ ~panicked
    /\ DoCall("popcount", 0)

NoLast == [op |-> "new", field |-> "all", side |-> 0, piece |-> 0, sq |-> 0]

IdleBB == /\ overflow_checks = TRUE /\ m = empty /\ log = <<>>
          /\ panicked = FALSE
IdleIt == /\ it = {} /\ it_src = {} /\ yielded = <<>> /\ it_state = "none"
          /\ prev_run = [src |-> {}, seq |-> <<>>, any |-> FALSE]
          /\ touched = FALSE
IdlePos == /\ bb_pieces = new.bb_pieces /\ bb_sides = new.bb_sides
IdleSeq == /\ last = NoLast /\ prev = new /\ edits = 0
IdleSh == /\ wpc = "idle" /\ wpiece = 0 /\ lock = "free" /\ rpc = "idle"
          /\ seen_l = [kind |-> "none", nonempty |-> FALSE]
          /\ seen_u = [kind |-> "none", nonempty |-> FALSE]
          /\ cycles = 0

InitBitBoard ==
    /\ overflow_checks \in BOOLEAN
    /\ m \in SUBSET Squares
    /\ log = <<>>
    /\ panicked = FALSE
    /\ IdleIt /\ IdlePos /\ IdleSeq /\ IdleSh

NextBitBoard ==
    \/ Empty
    \/ FromSquare
    \/ SetBit
    \/ ClearBit
    \/ IsSet
    \/ Popcount

SpecBitBoard == InitBitBoard /\ [][NextBitBoard]_vars

\* set_bit or clear_bit on a mask, with a valid square
Edit(op, mask, sq) ==
    IF op = "set_bit"
    THEN set_bit(mask, sq, overflow_checks).val
    ELSE clear_bit(mask, sq, overflow_checks).val

----------------------------------------------------------------------------
\* Traversals of one BitBoard value m (specification SpecIter)

\* m.iter(): a new iterator over a copy of m's word; an iterator that was
\* run to its end before is remembered in prev_run.
Iter ==
    /\ it' = iter(m)
    /\ it_src' = m
    /\ yielded' = <<>>
    /\ it_state' = "live"
    /\ touched' = FALSE
    /\ prev_run' = IF it_state = "done"
                   THEN [src |-> it_src, seq |-> yielded, any |-> TRUE]
                   ELSE prev_run
    /\ UNCHANGED <<bbVars, posVars, seqVars, shVars>>

\* next() on the live iterator
IterNext ==
    /\ it_state = "live"
    /\ LET r == iter_next(it)
       IN /\ it' = r.it
          /\ yielded' = IF r.some THEN Append(yielded, r.item) ELSE yielded
          /\ it_state' = IF r.some THEN "live" ELSE "done"
    /\ UNCHANGED <<it_src, prev_run, touched, bbVars, posVars, seqVars,
                   shVars>>

\* The owner of m edits it; an iterator made earlier keeps its own copy.
IterEdit ==
    /\ \E sq \in Squares, op \in {"set_bit", "clear_bit"} :
          m' = Edit(op, m, sq)
    /\ touched' = (it_state # "none")
    /\ UNCHANGED <<overflow_checks, log, panicked, it, it_src, yielded,
                   it_state, prev_run, posVars, seqVars, shVars>>

InitIter ==
    /\ overflow_checks = TRUE
    /\ m \in SUBSET Squares
    /\ log = <<>>
    /\ panicked = FALSE
    /\ IdleIt /\ IdlePos /\ IdleSeq /\ IdleSh

NextIter ==
    \/ Iter
    \/ IterNext
    \/ IterEdit

SpecIter == InitIter /\ [][NextIter]_vars

----------------------------------------------------------------------------
\* One owner working on a Position (specification SpecPosition)

\* Position::new: the owner starts over with a fresh Position.
New ==
    /\ bb_pieces' = new.bb_pieces
    /\ bb_sides' = new.bb_sides
    /\ last' = NoLast
    /\ prev' = Pos
    /\ UNCHANGED <<edits, bbVars, itVars, shVars>>

\* A collaborator edits one per-kind mask (the field is public).
EditPieces ==
    /\ edits < MaxEdits
    /\ \E s \in Sides, k \in EditKinds, sq \in PosSquares,
          op \in {"set_bit", "clear_bit"} :
          /\ bb_pieces' = [bb_pieces EXCEPT ![s][k] = Edit(op, @, sq)]
          /\ last' = [op |-> op, field |-> "bb_pieces", side |-> s,
                      piece |-> k, sq |-> sq]
    /\ bb_sides' = bb_sides
    /\ prev' = Pos
    /\ edits' = edits + 1
    /\ UNCHANGED <<bbVars, itVars, shVars>>

\* A collaborator writes one per-side mask directly (the field is public):
\* bb_sides then holds a value that no update_sides computed.
EditSides ==
    /\ edits < MaxEdits
    /\ \E s \in Sides, sq \in PosSquares, op \in {"set_bit", "clear_bit"} :
          /\ bb_sides' = [bb_sides EXCEPT ![s] = Edit(op, @, sq)]
          /\ last' = [op |-> op, field |-> "bb_sides", side |-> s,
                      piece |-> 0, sq |-> sq]
    /\ bb_pieces' = bb_pieces
    /\ prev' = Pos
    /\ edits' = edits + 1
    /\ UNCHANGED <<bbVars, itVars, shVars>>

\* Position::update_sides
UpdateSides ==
    /\ LET after == update_sides(Pos)
       IN /\ bb_pieces' = after.bb_pieces
          /\ bb_sides' = after.bb_sides
    /\ last' = [op |-> "update_sides", field |-> "all", side |-> 0,
                piece |-> 0, sq |-> 0]
    /\ prev' = Pos
    /\ UNCHANGED <<edits, bbVars, itVars, shVars>>

InitPosition ==
    /\ IdleBB /\ IdleIt /\ IdlePos /\ IdleSeq /\ IdleSh

NextPosition ==
    \/ New
    \/ EditPieces
    \/ EditSides
    \/ UpdateSides

SpecPosition == InitPosition /\ [][NextPosition]_vars

----------------------------------------------------------------------------
\* A Position shared by threads (specification SpecShared): a writer that
\* edits bb_pieces and then runs update_sides, one statement at a time, with
\* the callers' lock held over the whole sequence; a reader that reads
\* bb_sides with the lock held; a reader that reads it without the lock.
\* A step of a thread is one read or one write of a whole u64 word.

\* What a read of bb_sides[s] returns, compared with the OR of the side's
\* per-kind masks at that moment: "fresh" when they are equal, else "stale"
\* before update_sides has begun and "partial" once it has.
Observe(s) ==
    [kind |-> IF bb_sides[s] = UNION {bb_pieces[s][k] : k \in Pieces}
              THEN "fresh"
              ELSE IF wpc \in {"zero_black", "or_white", "or_black"}
                   THEN "partial"
                   ELSE "stale",
     nonempty |-> bb_sides[s] # {}]

WriterAcquire ==
    /\ wpc = "idle" /\ lock = "free" /\ cycles < MaxCycles
    /\ lock' = "writer"
    /\ wpc' = "edit"
    /\ cycles' = cycles + 1
    /\ UNCHANGED <<wpiece, rpc, seen_l, seen_u, posVars, bbVars, itVars,
                   seqVars>>

\* The writer's edit of one per-kind mask
WriterEdit ==
    /\ wpc = "edit"
    /\ \E s \in Sides, k \in EditKinds, sq \in PosSquares,
          op \in {"set_bit", "clear_bit"} :
          bb_pieces' = [bb_pieces EXCEPT ![s][k] = Edit(op, @, sq)]
    /\ wpc' = "zero_white"
    /\ UNCHANGED <<bb_sides, wpiece, lock, rpc, seen_l, seen_u, cycles,
                   bbVars, itVars, seqVars>>

\* update_sides, first statement
WriterZeroWhite ==
    /\ wpc = "zero_white"
    /\ bb_sides' = zero_white(Pos).bb_sides
    /\ wpc' = "zero_black"
    /\ UNCHANGED <<bb_pieces, wpiece, lock, rpc, seen_l, seen_u, cycles,
                   bbVars, itVars, seqVars>>

\* update_sides, second statement; the loop starts at piece 0
WriterZeroBlack ==
    /\ wpc = "zero_black"
    /\ bb_sides' = zero_black(Pos).bb_sides
    /\ wpc' = "or_white"
    /\ wpiece' = 0
    /\ UNCHANGED <<bb_pieces, lock, rpc, seen_l, seen_u, cycles, bbVars,
                   itVars, seqVars>>

\* update_sides, first statement of the loop body
WriterOrWhite ==
    /\ wpc = "or_white"
    /\ bb_sides' = or_white(Pos, wpiece).bb_sides
    /\ wpc' = "or_black"
    /\ UNCHANGED <<bb_pieces, wpiece, lock, rpc, seen_l, seen_u, cycles,
                   bbVars, itVars, seqVars>>

\* update_sides, second statement of the loop body, then the next piece or
\* the end of the loop
WriterOrBlack ==
    /\ wpc = "or_black"
    /\ bb_sides' = or_black(Pos, wpiece).bb_sides
    /\ wpiece' = IF wpiece + 1 < NUM_PIECES THEN wpiece + 1 ELSE 0
    /\ wpc' = IF wpiece + 1 < NUM_PIECES THEN "or_white" ELSE "release"
    /\ UNCHANGED <<bb_pieces, lock, rpc, seen_l, seen_u, cycles, bbVars,
                   itVars, seqVars>>

WriterRelease ==
    /\ wpc = "release"
    /\ lock' = "free"
    /\ wpc' = "idle"
    /\ UNCHANGED <<wpiece, rpc, seen_l, seen_u, cycles, posVars, bbVars,
                   itVars, seqVars>>

ReaderAcquire ==
    /\ rpc = "idle" /\ lock = "free"
    /\ lock' = "reader"
    /\ rpc' = "locked"
    /\ UNCHANGED <<wpc, wpiece, seen_l, seen_u, cycles, posVars, bbVars,
                   itVars, seqVars>>

\* The locking reader reads one per-side mask, then lets the lock go.
ReaderRead ==
    /\ rpc = "locked"
    /\ \E s \in Sides : seen_l' = Observe(s)
    /\ lock' = "free"
    /\ rpc' = "idle"
    /\ UNCHANGED <<wpc, wpiece, seen_u, cycles, posVars, bbVars, itVars,
                   seqVars>>

\* The lock-free reader reads one per-side mask whenever it runs.
UnlockedRead ==
    /\ \E s \in Sides : seen_u' = Observe(s)
    /\ UNCHANGED <<wpc, wpiece, lock, rpc, seen_l, cycles, posVars, bbVars,
                   itVars, seqVars>>

InitShared ==
    /\ IdleBB /\ IdleIt /\ IdlePos /\ IdleSeq /\ IdleSh

NextShared ==
    \/ WriterAcquire
    \/ WriterEdit
    \/ WriterZeroWhite
    \/ WriterZeroBlack
    \/ WriterOrWhite
    \/ WriterOrBlack
    \/ WriterRelease
    \/ ReaderAcquire
    \/ ReaderRead
    \/ UnlockedRead

SpecShared == InitShared /\ [][NextShared]_vars

----------------------------------------------------------------------------
\* Properties of the BitBoard calls

\* The last two calls on m were op1 then op2, on the same valid square.
Pair(op1, op2) ==
    /\ Len(log) = 2
    /\ log[1].op = op1 /\ log[2].op = op2
    /\ log[1].sq = log[2].sq
    /\ log[1].sq \in Bits

LastIs(op) == Len(log) > 0 /\ log[Len(log)].op = op
LastCall == log[Len(log)]

\* C4 as stated: for every m and valid i, set_bit(i) then clear_bit(i), with
\* no other call in between, returns m to the value it had before set_bit.
C4_RoundTripAnyMask ==
    Pair("set_bit", "clear_bit") => log[2].post = log[1].pre

\* C4 as amended: set_bit(i) then clear_bit(i) leaves m with bit i clear and
\* every other bit as before, so m returns to its prior value exactly when
\* bit i was clear before the set_bit.
C4_RoundTripWhenClear ==
    Pair("set_bit", "clear_bit") =>
        /\ log[2].post = log[1].pre \ {log[1].sq}
        /\ (log[2].post = log[1].pre) <=> (log[1].sq \notin log[1].pre)

C4_Witness ==
    /\ Pair("set_bit", "clear_bit")
    /\ log[1].sq \notin log[1].pre
    /\ log[1].pre # {}
    /\ log[2].post = log[1].pre

\* C7: set_bit(i) twice leaves what set_bit(i) once leaves, clear_bit(i)
\* twice leaves what clear_bit(i) once leaves, and no bit other than i
\* differs from the value before the first call.
C7_Idempotent ==
    \A op \in {"set_bit", "clear_bit"} :
        Pair(op, op) =>
            /\ log[2].post = log[1].post
            /\ \A j \in Bits \ {log[1].sq} :
                   (j \in log[2].post) <=> (j \in log[1].pre)

C7_Witness ==
    /\ Pair("set_bit", "set_bit")
    /\ log[1].sq \notin log[1].pre
    /\ log[1].pre # {}
    /\ log[1].sq \in log[2].post

\* C8: from_square(i), i in 0..63, has exactly bit i set (is_set(i) true,
\* is_set(j) false for j # i, popcount 1); empty() has popcount 0 and no bit
\* set.
C8_SingleBit ==
    /\ LastIs("from_square") /\ LastCall.sq \in Bits =>
          /\ ~LastCall.panic
          /\ \A j \in Bits :
                 is_set(m, j, overflow_checks).ret <=> (j = LastCall.sq)
          /\ popcount(m) = 1
    /\ LastIs("empty") =>
          /\ \A j \in Bits : ~is_set(m, j, overflow_checks).ret
          /\ popcount(m) = 0

C8_Witness ==
    /\ LastIs("from_square")
    /\ LastCall.sq = 63
    /\ LastCall.pre # {}
    /\ is_set(m, 63, overflow_checks).ret

\* C9 as stated: a call with square >= 64 has one defined outcome, the same
\* whatever the build: what this build did (panic or not, the word left, the
\* value returned) is what the other build profile does on the same call.
C9_OneDefinedOutcome ==
    \A n \in 1..Len(log) :
        log[n].sq >= WORD_BITS =>
            LET other == Call(log[n].op, log[n].pre, log[n].sq,
                              ~overflow_checks)
            IN /\ log[n].panic = other.panic
               /\ log[n].post = other.val
               /\ log[n].retb = other.retb

----------------------------------------------------------------------------
\* Properties of the Position

\* The bitwise OR of the six per-kind masks of one side.
OrOfKinds(pieces, s) == UNION {pieces[s][k] : k \in Pieces}

\* "synchronized": each per-side mask is the OR of the side's six masks.
Synchronized(pos) ==
    \A s \in Sides : pos.bb_sides[s] = OrOfKinds(pos.bb_pieces, s)

PiecesEdited == last.field = "bb_pieces"

\* C1: right after new(), and right after update_sides() from any state,
\* bb_sides[s] is the OR of bb_pieces[s][k] over the six kinds, for both s.
C1_SyncAfterNewAndUpdate ==
    last.op \in {"new", "update_sides"} => Synchronized(Pos)

\* update_sides ran on a Position whose bb_sides held bits that no per-kind
\* mask holds and lacked bits that one holds.
C1_Witness ==
    /\ last.op = "update_sides"
    /\ \E s \in Sides :
          /\ prev.bb_sides[s] \ OrOfKinds(prev.bb_pieces, s) # {}
          /\ OrOfKinds(prev.bb_pieces, s) \ prev.bb_sides[s] # {}
          /\ bb_sides[s] = OrOfKinds(bb_pieces, s)

\* C3 as stated: every set_bit or clear_bit on a per-kind mask of a
\* synchronized Position leaves it stale.
C3_EveryEditStale ==
    PiecesEdited /\ Synchronized(prev) => ~Synchronized(Pos)

\* C3 as amended: a Position is synchronized or stale, and an edit of
\* bb_pieces[s][k] on a synchronized Position leaves it stale exactly when
\* the edit changes the OR of side s: set_bit(i) when no mask of side s held
\* i, clear_bit(i) when bb_pieces[s][k] held i and no other mask of side s
\* did. Any other edit leaves it synchronized.
EditChangesUnion ==
    LET s == last.side
        k == last.piece
        i == last.sq
    IN \/ /\ last.op = "set_bit"
          /\ \A j \in Pieces : i \notin prev.bb_pieces[s][j]
       \/ /\ last.op = "clear_bit"
          /\ i \in prev.bb_pieces[s][k]
          /\ \A j \in Pieces \ {k} : i \notin prev.bb_pieces[s][j]

C3_StaleIffUnionChanges ==
    PiecesEdited /\ Synchronized(prev) =>
        (~Synchronized(Pos) <=> EditChangesUnion)

\* A clear_bit that leaves a synchronized Position synchronized, because
\* another kind of the side holds the square.
C3_Witness ==
    /\ PiecesEdited /\ Synchronized(prev)
    /\ last.op = "clear_bit"
    /\ last.sq \in prev.bb_pieces[last.side][last.piece]
    /\ Synchronized(Pos)

\* The six masks of a side are pairwise disjoint.
PairwiseDisjoint(pieces, s) ==
    \A j, k \in Pieces : j # k => pieces[s][j] \cap pieces[s][k] = {}

RECURSIVE SumPopcount(_, _, _)
SumPopcount(pieces, s, k) ==
    IF k >= NUM_PIECES
    THEN 0
    ELSE popcount(pieces[s][k]) + SumPopcount(pieces, s, k + 1)

\* C5: after edits and update_sides(), for each side whose six masks are
\* pairwise disjoint, popcount(bb_sides[s]) is the sum of the popcounts of
\* the side's six masks.
C5_PopcountIsSum ==
    last.op = "update_sides" =>
        \A s \in Sides :
            PairwiseDisjoint(bb_pieces, s) =>
                popcount(bb_sides[s]) = SumPopcount(bb_pieces, s, 0)

C5_Witness ==
    /\ last.op = "update_sides"
    /\ PairwiseDisjoint(bb_pieces, WHITE)
    /\ bb_pieces[WHITE][PAWN] # {} /\ bb_pieces[WHITE][KING] # {}
    /\ popcount(bb_sides[WHITE]) = 2
    /\ ~PairwiseDisjoint(bb_pieces, BLACK)

\* Values the masks of the other side, and the old bb_sides, are replaced by
\* to see whether a side's result depends on them.
OtherMasks ==
    {[k \in Pieces |-> {}], [k \in Pieces |-> PosSquares],
     [k \in Pieces |-> IF k = KING THEN {4} ELSE {}]}
OldSides == {[s \in Sides |-> {}], [s \in Sides |-> PosSquares]}

\* C6: update_sides() leaves all 12 per-kind masks as they were, and the
\* bb_sides[s] it computes is the same whatever the other side's masks (and
\* the old bb_sides) are.
C6_OnlySidesChange ==
    last.op = "update_sides" =>
        /\ bb_pieces = prev.bb_pieces
        /\ \A s \in Sides, o \in OtherMasks, g \in OldSides :
              update_sides([bb_pieces |->
                               [prev.bb_pieces EXCEPT ![1 - s] = o],
                            bb_sides |-> g]).bb_sides[s] = bb_sides[s]

C6_Witness ==
    /\ last.op = "update_sides"
    /\ bb_sides # prev.bb_sides
    /\ bb_pieces[WHITE][KING] = {4} /\ bb_pieces[BLACK][KING] = {60}
    /\ bb_sides[WHITE] = {4} /\ bb_sides[BLACK] = {60}

----------------------------------------------------------------------------
\* Properties of the iterator

YieldedSet == {yielded[n] : n \in 1..Len(yielded)}

\* C2: run to None, m.iter() has yielded the indices i of 0..63 with
\* m.is_set(i), each once, in strictly ascending order; the traversal leaves
\* m as it was; a second m.iter() on the same value yields the same sequence.
C2_IterAscendingExact ==
    /\ it_state = "done" =>
          /\ \A a, b \in 1..Len(yielded) : a < b => yielded[a] < yielded[b]
          /\ YieldedSet = {i \in Bits : is_set(it_src, i, overflow_checks).ret}
          /\ Len(yielded) = popcount(it_src)
          /\ it = {}
          /\ prev_run.any /\ prev_run.src = it_src => prev_run.seq = yielded
    /\ it_state # "none" /\ ~touched => m = it_src

C2_Witness ==
    /\ it_state = "done"
    /\ yielded = <<0, 63>>
    /\ m = it_src
    /\ prev_run.any /\ prev_run.src = it_src /\ prev_run.seq = yielded

----------------------------------------------------------------------------
\* Properties of the shared Position

\* C10: update_sides is not atomic (a read that runs while it runs, or
\* between an edit and it, can return a bb_sides[s] that is not the OR of
\* the side's masks); with every edit-then-update_sides sequence and every
\* read under one lock, a read never returns such a value.
C10_LockedReadsFresh ==
    /\ seen_l.kind \in {"none", "fresh"}
    /\ lock # "writer" =>
          \A s \in Sides : bb_sides[s] = UNION {bb_pieces[s][k] : k \in Pieces}

\* The lock-free reader has read a partly OR-reduced mask while the locking
\* reader read a mask that update_sides had finished.
C10_Witness ==
    /\ seen_u = [kind |-> "partial", nonempty |-> TRUE]
    /\ seen_l = [kind |-> "fresh", nonempty |-> TRUE]

\* The lock-free reader has read a mask between an edit and update_sides.
C10_StaleSeen == seen_u.kind = "stale"

====
